---- MODULE Spec2Model ----
(***************************************************************************)
(* RotationViewer (articulate/utils/bullet/view_rotation_np.py): a wrapper *)
(* around the pybullet client API.  The model holds the viewer objects'    *)
(* fields and the part of pybullet's process-wide state the viewer reads   *)
(* and writes: the table of connected physics clients and, for the GUI     *)
(* server, the loaded bodies (base position and orientation) and the debug *)
(* text.  Lengths are in tenths of a unit, so that the spacing 1.2 and the *)
(* centring offset (n - 1) * 1.2 / 2 are exact integers.                   *)
(*                                                                         *)
(* pybullet, as the viewer uses it: p.connect(p.GUI) returns the first     *)
(* free client id and raises when a GUI connection is already open in the  *)
(* process; body ids of a new server count from 0; a call without a        *)
(* physicsClientId goes to client 0 and raises when that client is not     *)
(* connected, or when the body id is unknown; p.disconnect destroys the    *)
(* server's bodies and debug items.                                        *)
(*                                                                         *)
(* A call is one step.  A call that raises leaves its exception pending    *)
(* (exc): it then leaves the with-block, if one is open, through __exit__  *)
(* (Propagate), or is handled by the caller (Catch).                       *)
(***************************************************************************)
EXTENDS Integers, Sequences, FiniteSets, TLC

\* ---------------------------------------------------------------- bounds
MaxN == 2
MaxSeqLen == 2

Viewers == {"A", "B"}
NoViewer == "none"

\* interval = 0 if overlap else 1.2 (line 29), in tenths
FixedSpacing == 12

Orders == {"xyzw", "wxyz", "zyxw"}

\* quaternions the callers pass (components pairwise distinct in the first)
Quats == {<<1, 2, 3, 4>>, <<0, 0, 0, 1>>}

\* orientation of a freshly loaded body (no baseOrientation given to loadURDF)
IdentityOrn == <<0, 0, 0, 1>>

\* viewer:  the fields of each RotationViewer object
\* clients: pybullet's connected physics client ids
\* bodies:  the bodies of the GUI server, body id b at place b + 1
\* owner:   the viewer whose connect() opened the open connection (history)
\* text:    whether a debug text is drawn
\* scope:   the viewer whose with-block is being executed
\* left:    the viewer whose with-block the last step left
\* exc:     the exception raised by the last call and not yet handled
VARIABLES viewer, clients, bodies, owner, text, scope, left, exc

vars == <<viewer, clients, bodies, owner, text, scope, left, exc>>

\* ------------------------------------------------------- the viewer object
Unmade ==
  [made |-> FALSE, n |-> 1, overlap |-> FALSE, interval |-> 0,
   physics_client |-> 0, objs |-> <<>>, wfirst |-> FALSE]

\* RotationViewer.__init__: the fields of a constructed viewer
NewViewer(n, overlap, order) ==
  [made |-> TRUE, n |-> n, overlap |-> overlap,
   interval |-> IF overlap THEN 0 ELSE FixedSpacing,
   physics_client |-> 0, objs |-> <<>>, wfirst |-> (order = "wxyz")]

\* the part of the state the methods read and write
World ==
  [viewer |-> viewer, clients |-> clients, bodies |-> bodies,
   owner |-> owner, text |-> text]

Ok(w) == [w |-> w, res |-> "ok"]
Raise(w, e) == [w |-> w, res |-> e]

\* ------------------------------------------------------- pybullet's side
\* p.isConnected(physicsClientId)
isConnected(w, id) == id \in w.clients

\* p.connect: the first free slot of the client table
FreeIndex(w) == CHOOSE i \in 0..Cardinality(w.clients) :
                  i \notin w.clients /\ \A j \in 0..(i - 1) : j \in w.clients

\* a negative index taken from the front of the list
ListGet_from_front(s, i) == IF i >= 0 THEN s[i + 1] ELSE s[-i]

\* python's list indexing self.objs[index]
ValidIndex(s, i) == -Len(s) <= i /\ i < Len(s)
ListGet(s, i) == IF i >= 0 THEN s[i + 1] ELSE s[Len(s) + i + 1]

\* ------------------------------------------------------------ the methods
\* the offset taken as n * interval / 2
SlotPosition_off_by_one(n, interval, i) ==
  <<-i * interval + (n * interval) \div 2, 0, 0>>

\* [-i * self.interval + offset, 0, 0]
SlotPosition(n, interval, i) ==
  <<-i * interval + ((n - 1) * interval) \div 2, 0, 0>>

\* RotationViewer.connect
connect(w, v) ==
  IF w.clients # {}
  THEN Raise(w, "BackendError")   \* only one in-process GUI connection
  ELSE LET id == FreeIndex(w)
           me == w.viewer[v]
       IN Ok([w EXCEPT
                !.clients = @ \cup {id},
                !.owner = v,
                !.text = FALSE,
                !.bodies = [i \in 1..me.n |->
                              [pos |-> SlotPosition(me.n, me.interval, i - 1),
                               orn |-> IdentityOrn]],
                !.viewer[v].physics_client = id,
                !.viewer[v].objs = [i \in 1..me.n |-> i - 1]])

\* RotationViewer.disconnect
disconnect(w, v) ==
  IF isConnected(w, w.viewer[v].physics_client)
  THEN Ok([w EXCEPT !.clients = @ \ {w.viewer[v].physics_client},
                    !.owner = NoViewer,
                    !.text = FALSE,
                    !.bodies = <<>>])
  ELSE Ok(w)

\* the components gathered as [3, 0, 1, 2]
Reorder_backwards(q, wfirst) ==
  IF wfirst THEN [k \in 1..4 |-> q[((k + 2) % 4) + 1]] ELSE q

\* np.array(quaternion)[[1, 2, 3, 0]] if self.wfirst else np.array(quaternion)
Reorder(q, wfirst) ==
  IF wfirst THEN [k \in 1..4 |-> q[(k % 4) + 1]] ELSE q

\* p.resetBasePositionAndOrientation(body, position, quaternion)
resetBase(bs, b, position, quaternion) ==
  [bs EXCEPT ![b + 1] = [pos |-> position, orn |-> quaternion]]

\* RotationViewer.update
update(w, v, quaternion, index) ==
  LET me == w.viewer[v] IN
  IF ~isConnected(w, me.physics_client) THEN Raise(w, "NotConnected")
  ELSE IF ~ValidIndex(me.objs, index) THEN Raise(w, "IndexOutOfRange")
  ELSE LET b == ListGet(me.objs, index) IN
       IF (b + 1) \notin DOMAIN w.bodies THEN Raise(w, "BackendError")
       ELSE LET position == w.bodies[b + 1].pos IN
            Ok([w EXCEPT !.bodies =
                  resetBase(@, b, position, Reorder(quaternion, me.wfirst))])

\* for i, q in enumerate(quaternions): self.update(q, i)
RECURSIVE UpdateLoop(_, _, _, _)
UpdateLoop(w, v, quaternions, i) ==
  IF i > Len(quaternions) THEN Ok(w)
  ELSE LET r == update(w, v, quaternions[i], i - 1) IN
       IF r.res # "ok" THEN r ELSE UpdateLoop(r.w, v, quaternions, i + 1)

\* the length of the list is not checked
update_all_unchecked(w, v, quaternions) == UpdateLoop(w, v, quaternions, 1)

\* RotationViewer.update_all
update_all(w, v, quaternions) ==
  IF Len(quaternions) # w.viewer[v].n THEN Raise(w, "ArityMismatch")
  ELSE UpdateLoop(w, v, quaternions, 1)

\* for i in range(seq_len): self.update_all([q[i] for q in quaternions])
RECURSIVE ReplayLoop(_, _, _, _, _)
ReplayLoop(w, v, quaternions, seq_len, i) ==
  IF i > seq_len THEN Ok(w)
  ELSE LET r == update_all(w, v, [k \in 1..Len(quaternions) |-> quaternions[k][i]]) IN
       IF r.res # "ok" THEN r ELSE ReplayLoop(r.w, v, quaternions, seq_len, i + 1)

\* the lengths are compared after the connection is made
view_offline_late_check(w, v, quaternions) ==
  IF quaternions = <<>> THEN Raise(w, "EmptyList")
  ELSE LET seq_len == Len(quaternions[1])
           is_connected == isConnected(w, w.viewer[v].physics_client)
           c == IF is_connected THEN Ok(w) ELSE connect(w, v)
       IN IF c.res # "ok" THEN c
          ELSE IF \E k \in 1..Len(quaternions) : Len(quaternions[k]) # seq_len
          THEN Raise(c.w, "LengthMismatch")
          ELSE LET r == ReplayLoop(c.w, v, quaternions, seq_len, 1) IN
               IF r.res # "ok" THEN r
               ELSE IF is_connected THEN r ELSE disconnect(r.w, v)

\* RotationViewer.view_offline
view_offline(w, v, quaternions) ==
  IF quaternions = <<>> THEN Raise(w, "EmptyList")       \* quaternions[0]
  ELSE LET seq_len == Len(quaternions[1]) IN
  IF \E k \in 1..Len(quaternions) : Len(quaternions[k]) # seq_len
  THEN Raise(w, "LengthMismatch")
  ELSE LET is_connected == isConnected(w, w.viewer[v].physics_client)
           c == IF is_connected THEN Ok(w) ELSE connect(w, v)
       IN IF c.res # "ok" THEN c
          ELSE LET r == ReplayLoop(c.w, v, quaternions, seq_len, 1) IN
               IF r.res # "ok" THEN r
               ELSE IF is_connected THEN r ELSE disconnect(r.w, v)

\* RotationViewer.print_text: both calls go to the default client, 0
print_text(w, v) ==
  IF ~isConnected(w, 0) THEN Raise(w, "BackendError")
  ELSE Ok([w EXCEPT !.text = TRUE])

\* ------------------------------------------------------------- the inputs
\* the quaternion at step t of the k-th sequence handed to view_offline
Frame(k, t) == IF (k + t) % 2 = 0 THEN <<1, 2, 3, 4>> ELSE <<0, 0, 0, 1>>

\* the sequences of the given lengths
MkSeqs(lens) == [k \in 1..Len(lens) |-> [t \in 1..lens[k] |-> Frame(k, t)]]

\* lists of 0 .. MaxN + 1 sequences: all of one length, or the first or the
\* last of them one step longer than the others
SeqLens ==
  UNION {{[k \in 1..c |-> IF k = odd THEN len + 1 ELSE len] :
            len \in 0..MaxSeqLen, odd \in {0, 1, c}} : c \in 0..(MaxN + 1)}

SeqInputs == {MkSeqs(lens) : lens \in SeqLens}

EqualLengths(seqs) == \A j, k \in 1..Len(seqs) : Len(seqs[j]) = Len(seqs[k])

\* lists of 0 .. MaxN + 1 quaternions
QuatLists == UNION {[1..c -> Quats] : c \in 0..(MaxN + 1)}

\* indices on both sides of every slot range
Indices == (-(MaxN + 1))..MaxN

\* the arguments a viewer is constructed with: B always with the default overlap
ConstructArgs(v) ==
  [n : 1..MaxN, overlap : IF v = "A" THEN BOOLEAN ELSE {FALSE}, order : Orders]

\* ------------------------------------------------------------- the state machine
\* the state after a call that returned r: its exception, if any, is pending
Apply(r) ==
  /\ viewer' = r.w.viewer
  /\ clients' = r.w.clients
  /\ bodies' = r.w.bodies
  /\ owner' = r.w.owner
  /\ text' = r.w.text
  /\ exc' = IF r.res = "ok" THEN "none" ELSE r.res
  /\ left' = NoViewer

Init ==
  /\ viewer = [v \in Viewers |-> Unmade]
  /\ clients = {}
  /\ bodies = <<>>
  /\ owner = NoViewer
  /\ text = FALSE
  /\ scope = NoViewer
  /\ left = NoViewer
  /\ exc = "none"

\* a call can be made: no exception is pending and the object exists
Callable(v) == exc = "none" /\ viewer[v].made

\* RotationViewer(n, overlap, order)
construct(w, v, a) ==
  IF a.order = "xyzw" \/ a.order = "wxyz"
  THEN Ok([w EXCEPT !.viewer[v] = NewViewer(a.n, a.overlap, a.order)])
  ELSE Raise(w, "InvalidConfiguration")

ConstructCall(v, a) ==
  /\ exc = "none" /\ ~viewer[v].made
  /\ Apply(construct(World, v, a))
  /\ UNCHANGED scope

ConnectCall(v) ==
  /\ Callable(v)
  /\ Apply(connect(World, v))
  /\ UNCHANGED scope

DisconnectCall(v) ==
  /\ Callable(v)
  /\ Apply(disconnect(World, v))
  /\ UNCHANGED scope

UpdateCall(v, q, index) ==
  /\ Callable(v)
  /\ Apply(update(World, v, q, index))
  /\ UNCHANGED scope

UpdateAllCall(v, qs) ==
  /\ Callable(v)
  /\ Apply(update_all(World, v, qs))
  /\ UNCHANGED scope

ViewOfflineCall(v, seqs) ==
  /\ Callable(v)
  /\ Apply(view_offline(World, v, seqs))
  /\ UNCHANGED scope

PrintTextCall(v) ==
  /\ Callable(v)
  /\ Apply(print_text(World, v))
  /\ UNCHANGED scope

\* with viewer: -- __enter__; the block is entered when connect returns
EnterCall(v) ==
  /\ Callable(v)
  /\ scope = NoViewer
  /\ LET r == connect(World, v) IN
       /\ Apply(r)
       /\ scope' = IF r.res = "ok" THEN v ELSE scope

\* __exit__ that does not disconnect
exit_scope_leak ==
  /\ scope # NoViewer
  /\ scope' = NoViewer
  /\ left' = scope
  /\ UNCHANGED <<viewer, clients, bodies, owner, text, exc>>

\* __exit__ of the with-block: disconnect, and None is returned, so that an
\* exception that left the block goes on
exit_scope ==
  /\ scope # NoViewer
  /\ LET r == disconnect(World, scope)
     IN /\ viewer' = r.w.viewer
        /\ clients' = r.w.clients
        /\ bodies' = r.w.bodies
        /\ owner' = r.w.owner
        /\ text' = r.w.text
  /\ scope' = NoViewer
  /\ left' = scope
  /\ UNCHANGED exc

Construct == \E v \in Viewers : \E a \in ConstructArgs(v) : ConstructCall(v, a)
Connect == \E v \in Viewers : ConnectCall(v)
Disconnect == \E v \in Viewers : DisconnectCall(v)
Update == \E v \in Viewers, q \in Quats, index \in Indices : UpdateCall(v, q, index)
UpdateAll == \E v \in Viewers, qs \in QuatLists : UpdateAllCall(v, qs)
ViewOffline == \E v \in Viewers, seqs \in SeqInputs : ViewOfflineCall(v, seqs)
PrintText == \E v \in Viewers : PrintTextCall(v)
Enter == \E v \in Viewers : EnterCall(v)

\* the body of the with-block returns
Exit == exc = "none" /\ exit_scope

\* a pending exception leaves the with-block
Propagate == exc # "none" /\ exit_scope

\* the caller handles the pending exception
Catch ==
  /\ exc # "none"
  /\ exc' = "none"
  /\ left' = NoViewer
  /\ UNCHANGED <<viewer, clients, bodies, owner, text, scope>>

Next ==
  \/ Construct
  \/ Connect
  \/ Disconnect
  \/ Update
  \/ UpdateAll
  \/ ViewOffline
  \/ PrintText
  \/ Enter
  \/ Exit
  \/ Propagate
  \/ Catch

Spec == Init /\ [][Next]_vars

\* ------------------------------------------------------------- the properties
\* A claim about what a call does is stated of the call's result in every
\* reachable state in which the call can be made: update(World, v, q, i) is
\* the result (the state it leaves and what it raises) of v.update(q, i).

\* the viewer's own connection is open: its connect() opened the connection
\* that is open now
ActiveConn(v) == owner = v

\* the slot a python index addresses in a list of n slots
SlotOf(n, index) == IF index >= 0 THEN index ELSE n + index

\* no body but the one at place p differs between bs and cs
OnlyPlaceChanged(bs, cs, p) ==
  /\ Len(cs) = Len(bs)
  /\ \A j \in 1..Len(bs) : j # p => cs[j] = bs[j]

RECURSIVE SumX(_, _)
SumX(bs, k) == IF k = 0 THEN 0 ELSE bs[k].pos[1] + SumX(bs, k - 1)

\* C1: while a viewer has no active connection of its own, none of its
\* update, update_all and print_text calls succeeds (the claim's invariant
\* "no orientation-update or text call succeeds while disconnected").
C1_NoCallSucceedsWhileDisconnected ==
  \A v \in Viewers : (Callable(v) /\ ~ActiveConn(v)) =>
    /\ \A q \in Quats, i \in Indices : update(World, v, q, i).res # "ok"
    /\ \A qs \in QuatLists : update_all(World, v, qs).res # "ok"
    /\ print_text(World, v).res # "ok"

\* C2: view_offline leaves the viewer connected if and only if it found it
\* connected, whether it returns or raises.
C2_ViewOfflineRestoresConnection ==
  \A v \in Viewers, seqs \in SeqInputs : Callable(v) =>
    LET r == view_offline(World, v, seqs) IN
    (r.w.owner = v) <=> ActiveConn(v)

\* C3: __enter__ that returns has connected the viewer and entered the
\* block; whenever the block is left, by return or by an exception, the
\* viewer has no active connection and its client id is not connected.
C3_ScopeExitDisconnects ==
  [][/\ \A v \in Viewers :
          (EnterCall(v) /\ exc' = "none") => (scope' = v /\ owner' = v)
     /\ (scope # NoViewer /\ scope' = NoViewer) =>
          /\ left' = scope
          /\ owner' # scope
          /\ viewer'[scope].physics_client \notin clients']_vars

\* a with-block was left by an exception of update_all, and its viewer,
\* which had connected, is disconnected
C3_Witness ==
  /\ left # NoViewer
  /\ exc = "ArityMismatch"
  /\ viewer[left].objs # <<>>
  /\ clients = {}

\* C4: update_all with a list whose length is not n raises ArityMismatch and
\* leaves every body as it was.
C4_ArityMismatch ==
  \A v \in Viewers, qs \in QuatLists :
    (Callable(v) /\ Len(qs) # viewer[v].n) =>
      LET r == update_all(World, v, qs) IN
      r.res = "ArityMismatch" /\ r.w.bodies = bodies

\* a call has raised ArityMismatch on a connection with two or more slots,
\* one of them turned by an earlier update
C4_Witness ==
  /\ exc = "ArityMismatch"
  /\ owner # NoViewer
  /\ viewer[owner].n >= 2
  /\ \E j \in 1..Len(bodies) : bodies[j].orn # IdentityOrn

\* C5: view_offline with sequences of unequal lengths raises LengthMismatch
\* and changes nothing: no body is updated and no connection is opened.
C5_LengthMismatch ==
  \A v \in Viewers, seqs \in SeqInputs :
    (Callable(v) /\ ~EqualLengths(seqs)) =>
      LET r == view_offline(World, v, seqs) IN
      r.res = "LengthMismatch" /\ r.w = World

\* view_offline has raised LengthMismatch and there is no connection
C5_Witness ==
  /\ exc = "LengthMismatch"
  /\ clients = {}
  /\ \E v \in Viewers : viewer[v].made

\* C6: a call of construct, connect, disconnect, update or view_offline that
\* raises leaves the viewers, the connection and the bodies as they were.
C6_FailedCallChangesNothing ==
  \A v \in Viewers : exc = "none" =>
    LET Kept(r) == r.res # "ok" => r.w = World IN
    IF ~viewer[v].made
    THEN \A a \in ConstructArgs(v) : Kept(construct(World, v, a))
    ELSE /\ Kept(connect(World, v))
         /\ Kept(disconnect(World, v))
         /\ \A q \in Quats, i \in Indices : Kept(update(World, v, q, i))
         /\ \A seqs \in SeqInputs : Kept(view_offline(World, v, seqs))

\* C7 as claimed: on a connected viewer, update with 0 <= index < n changes
\* slot index only, and with any other index raises IndexOutOfRange and
\* changes no slot.
C7_IndexWithinZeroToN ==
  \A v \in Viewers, q \in Quats, i \in Indices :
    (Callable(v) /\ ActiveConn(v)) =>
      LET r == update(World, v, q, i) IN
      IF 0 <= i /\ i < viewer[v].n
      THEN r.res = "ok" /\ OnlyPlaceChanged(bodies, r.w.bodies, i + 1)
      ELSE r.res = "IndexOutOfRange" /\ r.w.bodies = bodies

\* C7 amended: on a connected viewer, update with -n <= index < n changes
\* only the slot python's list indexing gives (index, or n + index when
\* index is negative) and keeps its position; with any other index it
\* raises IndexOutOfRange and changes no slot.
C7_IndexPythonRange ==
  \A v \in Viewers, q \in Quats, i \in Indices :
    (Callable(v) /\ ActiveConn(v)) =>
      LET r == update(World, v, q, i) IN
      IF -viewer[v].n <= i /\ i < viewer[v].n
      THEN LET p == SlotOf(viewer[v].n, i) + 1 IN
           /\ r.res = "ok"
           /\ OnlyPlaceChanged(bodies, r.w.bodies, p)
           /\ r.w.bodies[p].pos = bodies[p].pos
      ELSE r.res = "IndexOutOfRange" /\ r.w.bodies = bodies

\* only A exists, A is connected with two or more slots, an update of A has
\* turned a slot and a later update of A raised IndexOutOfRange
C7_Witness ==
  /\ exc = "IndexOutOfRange"
  /\ owner = "A"
  /\ viewer["A"].n >= 2
  /\ ~viewer["B"].made
  /\ \E j \in 1..Len(bodies) : bodies[j].orn # IdentityOrn

\* C8: disconnect() of a viewer that has no active connection raises nothing
\* and changes neither the viewers nor the backend.
C8_DisconnectWithoutConnectionIsNoOp ==
  \A v \in Viewers : (Callable(v) /\ ~ActiveConn(v)) =>
    LET r == disconnect(World, v) IN
    r.res = "ok" /\ r.w = World

\* C9: a connected viewer holds n slots, slot i at
\* x = -i * spacing + (n - 1) * spacing / 2, y = z = 0, where spacing is 0
\* with overlap and 1.2 without; with overlap all slots share one position,
\* without it the positions are pairwise distinct and sum to zero.
C9_SlotsStayPlaced ==
  \A v \in Viewers : ActiveConn(v) =>
    LET me == viewer[v]
        spacing == IF me.overlap THEN 0 ELSE FixedSpacing
        at(i) == bodies[me.objs[i + 1] + 1].pos
    IN /\ Len(me.objs) = me.n
       /\ Len(bodies) = me.n
       /\ \A i \in 0..(me.n - 1) :
            /\ 2 * at(i)[1] = (me.n - 1) * spacing - 2 * i * spacing
            /\ at(i)[2] = 0
            /\ at(i)[3] = 0
       /\ me.overlap => \A i, j \in 0..(me.n - 1) : at(i) = at(j)
       /\ ~me.overlap => \A i, j \in 0..(me.n - 1) : i # j => at(i) # at(j)
       /\ SumX(bodies, Len(bodies)) = 0

\* A is connected with two or more spaced slots, each turned by an update
C9_Witness ==
  /\ owner = "A"
  /\ viewer["A"].n >= 2
  /\ ~viewer["A"].overlap
  /\ \A j \in 1..Len(bodies) : bodies[j].orn # IdentityOrn

\* C10: an update that returns has set the slot's orientation to
\* [x, y, z, w] when the viewer takes [w, x, y, z], and to the quaternion
\* as given when it takes [x, y, z, w]: the real component comes last.
C10_AxisReorder ==
  \A v \in Viewers, q \in Quats, i \in Indices :
    Callable(v) =>
      LET r == update(World, v, q, i) IN
      r.res = "ok" =>
        r.w.bodies[ListGet(viewer[v].objs, i) + 1].orn =
          IF viewer[v].wfirst THEN <<q[2], q[3], q[4], q[1]>> ELSE q

\* only A exists, it takes [w, x, y, z], and one of its slots was given
\* [1, 2, 3, 4]
C10_Witness ==
  /\ owner = "A"
  /\ viewer["A"].wfirst
  /\ ~viewer["B"].made
  /\ \E j \in 1..Len(bodies) : bodies[j].orn = <<2, 3, 4, 1>>

====
